---- MODULE Spec2Model ----
(***************************************************************************)
(* Nucleation-site model of sciml/op_lib/nucleation.py: the coverage       *)
(* tagger (tag_renucleation) and the renucleation trigger (renucleate),    *)
(* called by a time-stepping caller that owns the distance field and the   *)
(* per-site coverage counters.                                             *)
(*                                                                         *)
(* Numbers.  Lengths and field values are fixed-point integers, one unit   *)
(* being 0.01 of the code's length unit (seed_radius = 0.2 is 20).  The    *)
(* square root and the division by dfun_scale round down to that grid,     *)
(* where the code rounds to the nearest float.  The sampled site value is  *)
(* kept exactly: dfun_sites holds the mean of the four corners in quarter  *)
(* units (the sum of the corners), so its sign and its zero are those of   *)
(* the code's mean.  Arrays are 0-based as in the code.                    *)
(*                                                                         *)
(* Caller.  The module's own __main__ makes one tagger call and one        *)
(* renucleate call; that renucleate call leaves dfun_scale out, so as      *)
(* written it raises TypeError.  The caller modelled here passes all nine  *)
(* parameters and keeps both returned values, step after step.             *)
(***************************************************************************)
EXTENDS Integers, Sequences, FiniteSets, TLC

\* ------------------------------------------------------------ bounds
\* Number of tag_renucleation calls a run of free calls makes.
MaxSteps == 6
\* Number of steps the time-stepping driver makes.
DriverSteps == 8
\* Number of nucleation sites.
NumSites == 2

\* --------------------------------------------------- program constants
\* seed_radius = 0.2, in units of 0.01.
SeedRadius == 20
\* The hysteresis threshold of renucleate.
Threshold == 4
\* np.zeros_like(x_grid) - np.inf: below every value of the model.
NegInf == -1000000

\* ------------------------------------------------------------- inputs
\* The grid's axes of the runs: coordx (first row), coordy (first column).
GridX == <<0, 10, 20>>
GridY == <<0, 10, 20>>
\* Site x-coordinates the caller may pass: inside the grid, right of it.
XSiteVals == {5, 15, 25}
\* The heater's baseline (1e-13 in the code, 0 on the fixed-point grid).
YSiteVals == {0}
\* dfun_scale values.
Scales == {1, 2}

Sites == 0 .. NumSites - 1

\* np.meshgrid of the axes: x_grid[r, c] = coordx[c], y_grid[r, c] = coordy[r].
GridPts(cx, cy) == (0 .. Len(cy) - 1) \X (0 .. Len(cx) - 1)
MeshX(cx, cy) == [p \in GridPts(cx, cy) |-> cx[p[2] + 1]]
MeshY(cx, cy) == [p \in GridPts(cx, cy) |-> cy[p[1] + 1]]

\* --------------------------------------------------------- arithmetic
RECURSIVE SqrtFrom(_, _)
SqrtFrom(n, k) == IF (k + 1) * (k + 1) > n THEN k ELSE SqrtFrom(n, k + 1)
\* np.sqrt on the fixed-point grid.
Sqrt(n) == SqrtFrom(n, 0)

Max2(a, b) == IF a >= b THEN a ELSE b

\* np.maximum(f, g), pointwise (and the variant that assigns g instead).
MaximumOverwrite(f, g) == [p \in DOMAIN f |-> g[p]]
Maximum(f, g) == [p \in DOMAIN f |-> Max2(f[p], g[p])]

\* seed_height = seed_radius * np.cos(np.pi / 4)
SeedHeight == (SeedRadius * 7071) \div 10000

\* interim_dfun = seed_radius - np.sqrt((x_grid - seed_x)**2 + (y_grid - seed_y)**2)
\* with seed_x, seed_y the site's position raised by seed_height.
InterimDfun(x_grid, y_grid, sx, sy) ==
    [p \in DOMAIN x_grid |->
        SeedRadius - Sqrt((x_grid[p] - sx) * (x_grid[p] - sx)
                          + (y_grid[p] - (sy + SeedHeight)) * (y_grid[p] - (sy + SeedHeight)))]

\* interim_dfun / dfun_scale (and the variant that leaves the division out).
ScaledNot(f, scale) == f
Scaled(f, scale) == [p \in DOMAIN f |-> f[p] \div scale]

\* ------------------------------------------------------------ dfun_init
RECURSIVE DfunInitLoop(_, _, _, _, _, _)
DfunInitLoop(i, x_grid, y_grid, xs, ys, d) ==
    IF i = NumSites THEN d
    ELSE DfunInitLoop(i + 1, x_grid, y_grid, xs, ys,
                      Maximum(d, InterimDfun(x_grid, y_grid, xs[i], ys[i])))

DfunInit(x_grid, y_grid, xs, ys) ==
    DfunInitLoop(0, x_grid, y_grid, xs, ys, [p \in DOMAIN x_grid |-> NegInf])

\* --------------------------------------------------------- searchsorted
\* np.searchsorted(a, v, side='left'): binary search for the first index
\* whose element is not below v, over the 0-based half-open range lo..hi.
RECURSIVE BinSearch(_, _, _, _)
BinSearch(a, v, lo, hi) ==
    IF lo >= hi THEN lo
    ELSE LET mid == (lo + hi) \div 2
         IN IF a[mid + 1] < v THEN BinSearch(a, v, mid + 1, hi)
            ELSE BinSearch(a, v, lo, mid)

\* The search with side='right': the first index whose element is above v.
SearchSortedRight(a, v) == Cardinality({k \in 1 .. Len(a) : a[k] <= v})
SearchSorted(a, v) == BinSearch(a, v, 0, Len(a))

\* numpy's index rule on an axis of length n: a negative index counts from
\* the end, an index outside -n .. n-1 raises IndexError.
IndexOK(k, n) == k >= -n /\ k < n
PyIndex(k, n) == IF k < 0 THEN k + n ELSE k

\* d[r, c] with numpy's index rule, on a field of nr rows and nc columns.
At(d, nr, nc, r, c) == d[<<PyIndex(r, nr), PyIndex(c, nc)>>]

\* ----------------------------------------------------- tag_renucleation
\* x_i and y_i of site i.
XIdx(cx, xs, i) == SearchSorted(cx, xs[i])
YIdx(cy, ys, i) == SearchSorted(cy, ys[i] + SeedHeight)

\* Whether numpy accepts the four corner reads of site i.
ReadsOK(cx, cy, xs, ys, i) ==
    /\ IndexOK(XIdx(cx, xs, i), Len(cx)) /\ IndexOK(XIdx(cx, xs, i) - 1, Len(cx))
    /\ IndexOK(YIdx(cy, ys, i), Len(cy)) /\ IndexOK(YIdx(cy, ys, i) - 1, Len(cy))

\* dfun_site, in quarter units: the sum of the four corners.
DfunSite(cx, cy, xs, ys, d, i) ==
    LET xi == XIdx(cx, xs, i)
        yi == YIdx(cy, ys, i)
        nr == Len(cy)
        nc == Len(cx)
    IN At(d, nr, nc, yi, xi) + At(d, nr, nc, yi - 1, xi)
       + At(d, nr, nc, yi, xi - 1) + At(d, nr, nc, yi - 1, xi - 1)

\* The counter update of one site (and the variant that counts a sample
\* of 0 as liquid).
CoverZeroIsLiquid(v, n) == IF v <= 0 THEN n + 1 ELSE 0
Cover(v, n) == IF v < 0 THEN n + 1 ELSE 0

\* The loop over the sites from site i on.  liquid_cover_iters is updated in
\* place, so an IndexError at site i leaves the counters of the sites
\* before i updated and the rest as they were.
RECURSIVE TagLoop(_, _, _, _, _, _, _, _)
TagLoop(i, cx, cy, xs, ys, d, ds, iters) ==
    IF i = NumSites THEN [dfun_sites |-> ds, iters |-> iters, err |-> "none", at |-> i]
    ELSE IF ~ReadsOK(cx, cy, xs, ys, i)
         THEN [dfun_sites |-> ds, iters |-> iters, err |-> "IndexError", at |-> i]
         ELSE LET v == DfunSite(cx, cy, xs, ys, d, i)
              IN TagLoop(i + 1, cx, cy, xs, ys, d,
                         [ds EXCEPT ![i] = v],
                         [iters EXCEPT ![i] = Cover(v, iters[i])])

TagRenucleation(cx, cy, xs, ys, d, iters) ==
    TagLoop(0, cx, cy, xs, ys, d, [i \in Sites |-> 0], iters)

\* ----------------------------------------------------------- renucleate
\* The trigger condition of one site (and the variants with a strict
\* threshold and with no threshold).
TriggerAbove(v, n) == v < 0 /\ n > Threshold
TriggerAnyCount(v, n) == v < 0
Trigger(v, n) == v < 0 /\ n >= Threshold

\* liquid_cover_iters[i] = 0 (and the variant that keeps the counter).
ResetKeep(iters, i) == iters
ResetCounter(iters, i) == [iters EXCEPT ![i] = 0]

\* The loop over the sites in the order given.  fired collects the sites
\* that took the branch.
RECURSIVE RenucLoop(_, _, _, _, _, _, _, _, _, _)
RenucLoop(order, x_grid, y_grid, xs, ys, ds, iters, d, scale, fired) ==
    IF order = <<>> THEN [dfun |-> d, iters |-> iters, fired |-> fired]
    ELSE LET i == Head(order)
         IN IF Trigger(ds[i], iters[i])
            THEN RenucLoop(Tail(order), x_grid, y_grid, xs, ys, ds,
                           ResetCounter(iters, i),
                           Maximum(d, Scaled(InterimDfun(x_grid, y_grid, xs[i], ys[i]), scale)),
                           scale, fired \cup {i})
            ELSE RenucLoop(Tail(order), x_grid, y_grid, xs, ys, ds, iters, d, scale, fired)

\* enumerate(zip(x_sites, y_sites)): sites 0, 1, ..., n-1.
CodeOrder == [k \in 1 .. NumSites |-> k - 1]

Renucleate(x_grid, y_grid, xs, ys, ds, iters, d, scale) ==
    RenucLoop(CodeOrder, x_grid, y_grid, xs, ys, ds, iters, d, scale, {})

\* --------------------------------------------------------------- state
VARIABLES
    coordx,             \* the grid's x-axis
    coordy,             \* the grid's y-axis
    x_sites,            \* site x-positions
    y_sites,            \* site y-positions
    dfun,               \* the distance field the caller holds
    dfun_sites,         \* the tagger's last per-site samples (quarter units)
    liquid_cover_iters, \* the coverage counters
    pc,                 \* "init", "tagged", "renucleated", "crashed"
    step,               \* number of tag_renucleation calls made
    pre,                \* the arguments of the last call
    fired,              \* the sites the last renucleate call re-seeded
    log,                \* per site, its events since its last reset event
    firelog,            \* per site, its log when it was last re-seeded
    allneg              \* per site, whether every sample so far was negative

vars == <<coordx, coordy, x_sites, y_sites, dfun, dfun_sites, liquid_cover_iters,
          pc, step, pre, fired, log, firelog, allneg>>

\* Fields the external solver hands to the caller: uniform, or uniform
\* with one grid point of the opposite sign in the row below the seeds.
Uniform(pts, b) == [p \in pts |-> b]
Spiked(pts, b, q, s) == [p \in pts |-> IF p = q THEN s ELSE b]
SolverFields(cx, cy) ==
    LET pts == GridPts(cx, cy)
        spikes == {p \in pts : p[1] = 1}
    IN {Uniform(pts, -40), Uniform(pts, 40)}
       \cup {Spiked(pts, -40, q, 120) : q \in spikes}
       \cup {Spiked(pts, 40, q, -160) : q \in spikes}

\* The state a caller starts from: the field of dfun_init, counters at 0.
Start ==
    /\ dfun = DfunInit(MeshX(coordx, coordy), MeshY(coordx, coordy), x_sites, y_sites)
    /\ dfun_sites = [i \in Sites |-> 0]
    /\ liquid_cover_iters = [i \in Sites |-> 0]
    /\ pc = "init"
    /\ step = 0
    /\ pre = [op |-> "none"]
    /\ fired = {}
    /\ log = [i \in Sites |-> <<>>]
    /\ firelog = [i \in Sites |-> <<>>]
    /\ allneg = [i \in Sites |-> TRUE]

Init ==
    /\ coordx = GridX
    /\ coordy = GridY
    /\ x_sites \in [Sites -> XSiteVals]
    /\ y_sites \in [Sites -> YSiteVals]
    /\ Start

\* The log of a site after one evaluation at step k: a negative sample is
\* appended, a non-negative one starts the log over.
Logged(l, v, k) ==
    IF v < 0 THEN Append(l, [ev |-> "neg", step |-> k])
    ELSE <<[ev |-> "nonneg", step |-> k]>>

\* The caller takes field f from the solver and calls tag_renucleation.
Tag(f) ==
    /\ pc # "crashed"
    /\ \E r \in {TagRenucleation(coordx, coordy, x_sites, y_sites, f, liquid_cover_iters)} :
          /\ dfun' = f
          /\ liquid_cover_iters' = r.iters
          /\ dfun_sites' = IF r.err = "none" THEN r.dfun_sites ELSE dfun_sites
          /\ pc' = IF r.err = "none" THEN "tagged" ELSE "crashed"
          /\ log' = [i \in Sites |->
                        IF i < r.at THEN Logged(log[i], r.dfun_sites[i], step + 1)
                        ELSE log[i]]
          /\ allneg' = [i \in Sites |->
                        IF i < r.at THEN allneg[i] /\ r.dfun_sites[i] < 0
                        ELSE allneg[i]]
          /\ pre' = [op |-> "tag", iters |-> liquid_cover_iters, dfun |-> f,
                     xs |-> x_sites, ys |-> y_sites, at |-> r.at]
    /\ step' = step + 1
    /\ fired' = {}
    /\ UNCHANGED <<coordx, coordy, x_sites, y_sites, firelog>>

\* The caller calls renucleate on the tagger's outputs and keeps the result.
Renuc(scale) ==
    /\ pc \in {"tagged", "renucleated"}
    /\ \E r \in {Renucleate(MeshX(coordx, coordy), MeshY(coordx, coordy), x_sites, y_sites,
                            dfun_sites, liquid_cover_iters, dfun, scale)} :
          /\ dfun' = r.dfun
          /\ liquid_cover_iters' = r.iters
          /\ fired' = r.fired
          /\ log' = [i \in Sites |->
                        IF i \in r.fired THEN <<[ev |-> "fire", step |-> step]>>
                        ELSE log[i]]
          /\ firelog' = [i \in Sites |-> IF i \in r.fired THEN log[i] ELSE firelog[i]]
    /\ pc' = "renucleated"
    /\ pre' = [op |-> "renucleate", iters |-> liquid_cover_iters, dfun |-> dfun,
               xs |-> x_sites, ys |-> y_sites, ds |-> dfun_sites, scale |-> scale]
    /\ UNCHANGED <<coordx, coordy, x_sites, y_sites, dfun_sites, step, allneg>>

\* Calls in any order: the two functions as a library.
TagStep == step < MaxSteps /\ \E f \in SolverFields(coordx, coordy) : Tag(f)
RenucStep == \E scale \in Scales : Renuc(scale)

Next == TagStep \/ RenucStep

Spec == Init /\ [][Next]_vars

\* The time-stepping driver: every step is tag_renucleation, then renucleate,
\* with every site inside the grid, as the tagger requires of its caller.
XInterior == {x \in XSiteVals : GridX[1] < x /\ x <= GridX[Len(GridX)]}

DriverInit ==
    /\ coordx = GridX
    /\ coordy = GridY
    /\ x_sites \in [Sites -> XInterior]
    /\ y_sites \in [Sites -> YSiteVals]
    /\ Start

DriverTag ==
    /\ pc \in {"init", "renucleated"}
    /\ step < DriverSteps
    /\ \E f \in SolverFields(coordx, coordy) : Tag(f)
DriverRenuc == pc = "tagged" /\ \E scale \in Scales : Renuc(scale)

DriverNext == DriverTag \/ DriverRenuc

DriverSpec == DriverInit /\ [][DriverNext]_vars

\* One tagger call on every axis and site position of a small range: the
\* index search and the corner reads.
Axes == {<<0, 10>>, <<0, 20>>, <<10, 20>>, <<0, 10, 20>>}
AxisXVals == {-5, 0, 5, 10, 15, 20, 25}
AxisYVals == {-15, 0, 10}

AxisInit ==
    /\ coordx \in Axes
    /\ coordy = GridY
    /\ x_sites \in [Sites -> AxisXVals]
    /\ y_sites \in {[i \in Sites |-> y] : y \in AxisYVals}
    /\ Start

AxisTag == step = 0 /\ \E f \in SolverFields(coordx, coordy) : Tag(f)

AxisNext == AxisTag

AxisSpec == AxisInit /\ [][AxisNext]_vars

\* ---------------------------------------------------------- properties
\* The trigger condition as the specification words it, on the arguments
\* of the last renucleate call.
Met(i) == pre.ds[i] < 0 /\ pre.iters[i] >= 4

\* The number of negative evaluations in a log.
NegCount(l) == Cardinality({k \in 1 .. Len(l) : l[k].ev = "neg"})

\* C1: renucleate re-seeds site i if and only if its sample is negative
\* and its counter is at least 4.  With the counter started at 0 and a
\* negative sample at every tagger call, the counter is the number of calls
\* up to the third and the site has not fired, the counter reaches 4 at
\* the fourth call, and the renucleate call after it fires.
C1_TriggerCondition ==
    \A i \in Sites :
        /\ pc = "renucleated" => (i \in fired <=> Met(i))
        /\ (allneg[i] /\ pc \in {"tagged", "renucleated"} /\ step <= 3)
              => /\ liquid_cover_iters[i] = step
                 /\ i \notin fired
                 /\ firelog[i] = <<>>
        /\ (allneg[i] /\ pc = "tagged" /\ step = 4) => liquid_cover_iters[i] = 4
        /\ (allneg[i] /\ pc = "renucleated" /\ step = 4)
              => /\ log[i] = <<[ev |-> "fire", step |-> 4]>>
                 /\ NegCount(firelog[i]) = 4

\* A site fires at the renucleate call after its fourth negative call.
C1_Witness ==
    /\ pc = "renucleated"
    /\ step = 4
    /\ \E i \in Sites : allneg[i] /\ i \in fired /\ pre.iters[i] = 4
    /\ \E j \in Sites : j \notin fired /\ pre.ds[j] < 0 /\ pre.iters[j] = 3

\* C2: a site that renucleate re-seeded had a counter of at least 4 and
\* has counter 0 when the call returns; the next tagger call that samples
\* a negative value there sets its counter to exactly 1.
C2_ResetOnTrigger ==
    \A i \in Sites :
        /\ (pc = "renucleated" /\ i \in fired)
              => pre.iters[i] >= 4 /\ liquid_cover_iters[i] = 0
        /\ (pc = "tagged" /\ Len(log[i]) = 2 /\ log[i][1].ev = "fire")
              => /\ pre.iters[i] = 0
                 /\ dfun_sites[i] < 0
                 /\ liquid_cover_iters[i] = 1

\* A site fired with a counter above 4 and was then sampled negative.
C2_Witness ==
    /\ pc = "tagged"
    /\ \E i \in Sites :
          /\ Len(log[i]) = 2
          /\ log[i][1].ev = "fire"
          /\ NegCount(firelog[i]) > 4
          /\ liquid_cover_iters[i] = 1

\* C3: in the driver, for a site sampled negative at every call, the
\* counter after step k is k mod 4 and the site fires exactly at the
\* steps that are multiples of 4; over five steps the counters are
\* 1, 2, 3, 0, 1 and the only firing is at step 4.
C3_EndToEnd ==
    \A i \in Sites :
        (allneg[i] /\ pc = "renucleated")
            => /\ liquid_cover_iters[i] = step % 4
               /\ i \in fired <=> step % 4 = 0
               /\ step <= 5 => /\ liquid_cover_iters[i] = <<1, 2, 3, 0, 1>>[step]
                               /\ i \in fired <=> step = 4

\* Five driver steps of negative samples have been made.
C3_Witness ==
    /\ pc = "renucleated"
    /\ step = 5
    /\ \E i \in Sites : /\ allneg[i]
                        /\ liquid_cover_iters[i] = 1
                        /\ firelog[i] # <<>>
                        /\ log[i][1] = [ev |-> "fire", step |-> 4]

\* C4: a tagger call adds 1 to the counter of every site whose sample is
\* strictly negative and sets every other site's counter to 0, a sample
\* of exactly 0 included; so the counter is always the number of negative
\* evaluations since the site's last non-negative one or last re-seeding.
C4_CoverageCount ==
    \A i \in Sites :
        /\ pc = "tagged"
              => liquid_cover_iters[i]
                    = IF dfun_sites[i] < 0 THEN pre.iters[i] + 1 ELSE 0
        /\ liquid_cover_iters[i] = NegCount(log[i])

\* One call reset a site sampled at exactly 0 and counted another one up.
C4_Witness ==
    /\ pc = "tagged"
    /\ \E i \in Sites : /\ dfun_sites[i] = 0
                        /\ pre.iters[i] > 0
                        /\ liquid_cover_iters[i] = 0
    /\ \E j \in Sites : /\ dfun_sites[j] < 0
                        /\ pre.iters[j] > 0
                        /\ liquid_cover_iters[j] = pre.iters[j] + 1

\* The seed contribution of site i at grid point p for the last renucleate
\* call: seed radius minus the distance to the seed centre, over dfun_scale.
SeedContribution(i, p) ==
    LET dx == coordx[p[2] + 1] - pre.xs[i]
        dy == coordy[p[1] + 1] - (pre.ys[i] + SeedHeight)
        d == CHOOSE k \in 0 .. 100 : k * k <= dx * dx + dy * dy
                                     /\ dx * dx + dy * dy < (k + 1) * (k + 1)
    IN (SeedRadius - d) \div pre.scale

\* C5: renucleate leaves the counter of every site that does not meet the
\* trigger condition as it was and gives the field no value but the input's
\* and the seeds of the sites that meet it; when no site meets it, field
\* and counters are the input's.  Neither call changes the site positions,
\* and renucleate does not change dfun_sites.
C5_NonTriggerUntouched ==
    /\ pc = "renucleated" =>
          /\ \A i \in Sites : ~Met(i) => liquid_cover_iters[i] = pre.iters[i]
          /\ \A p \in DOMAIN dfun :
                \/ dfun[p] = pre.dfun[p]
                \/ \E i \in Sites : Met(i) /\ dfun[p] = SeedContribution(i, p)
          /\ (\A i \in Sites : ~Met(i))
                => dfun = pre.dfun /\ liquid_cover_iters = pre.iters
          /\ dfun_sites = pre.ds
    /\ pre.op # "none" => x_sites = pre.xs /\ y_sites = pre.ys

\* One site fired and another, covered for fewer than 4 calls, kept its count.
C5_Witness ==
    /\ pc = "renucleated"
    /\ \E i, j \in Sites :
          /\ i \in fired
          /\ pre.ds[j] < 0
          /\ pre.iters[j] \in 1 .. 3
          /\ liquid_cover_iters[j] = pre.iters[j]

\* C6: in the driver, when a site fires at step k its samples at steps
\* k-3 .. k were negative with no firing of that site in between; so two
\* firings of a site, and a non-negative sample and the next firing, are
\* at least 4 steps apart.
C6_MinimumDwell ==
    \A i \in Sites :
        firelog[i] # <<>> =>
            LET l == firelog[i]
                n == Len(l)
                k == l[n].step
            IN /\ n >= 4
               /\ \A j \in 0 .. 3 : l[n - j] = [ev |-> "neg", step |-> k - j]
               /\ l[1].ev \in {"fire", "nonneg"} => k - l[1].step >= 4
               /\ log[i][1].ev = "fire" => log[i][1].step = k

\* A site fired twice.
C6_Witness ==
    \E i \in Sites : /\ firelog[i] # <<>>
                     /\ firelog[i][1].ev = "fire"
                     /\ log[i][1].ev = "fire"

\* The orders in which the sites can be processed.
Orders == {s \in [1 .. NumSites -> Sites] : \A i \in Sites : \E k \in 1 .. NumSites : s[k] = i}

\* The last renucleate call, made again on its arguments in the given order.
Replay(order) ==
    RenucLoop(order, MeshX(coordx, coordy), MeshY(coordx, coordy), pre.xs, pre.ys,
              pre.ds, pre.iters, pre.dfun, pre.scale, {})

\* The per-site updates, each made alone on the input field, merged by max.
RECURSIVE Merged(_, _)
Merged(i, d) == IF i = NumSites THEN d ELSE Merged(i + 1, Maximum(d, Replay(<<i>>).dfun))

\* C7: the sites renucleate re-seeds are those that meet the trigger
\* condition on the arguments passed in, and the field and counters it
\* returns are those of every processing order of the sites and of the
\* per-site updates made separately and merged by max.
C7_OrderIndependent ==
    pc = "renucleated" =>
        /\ fired = {i \in Sites : Met(i)}
        /\ \A order \in Orders :
              Replay(order) = [dfun |-> dfun, iters |-> liquid_cover_iters, fired |-> fired]
        /\ dfun = Merged(0, pre.dfun)
        /\ \A i \in Sites : liquid_cover_iters[i] = Replay(<<i>>).iters[i]

\* Two sites at different positions fired in one call.
C7_Witness ==
    /\ pc = "renucleated"
    /\ \E i, j \in fired : x_sites[i] # x_sites[j]
    /\ \E p \in DOMAIN dfun : SeedContribution(0, p) # SeedContribution(1, p)

\* C8: after renucleate every grid point holds the maximum of its input
\* value and the seed contributions of the sites that fired in the call;
\* no point is lower than in the input.
C8_MaxCompose ==
    pc = "renucleated" =>
        \A p \in DOMAIN dfun :
            /\ dfun[p] >= pre.dfun[p]
            /\ \A i \in fired : dfun[p] >= SeedContribution(i, p)
            /\ \/ dfun[p] = pre.dfun[p]
               \/ \E i \in fired : dfun[p] = SeedContribution(i, p)

\* A call with dfun_scale 2 raised one grid point to a seed and left another.
C8_Witness ==
    /\ pc = "renucleated"
    /\ fired # {}
    /\ pre.scale = 2
    /\ \E p, q \in DOMAIN dfun :
          /\ dfun[p] > pre.dfun[p]
          /\ dfun[q] = pre.dfun[q]
          /\ \E i \in fired : dfun[q] > SeedContribution(i, q)

\* Whether index k and index k-1 are both inside an axis of length n.
Inside(k, n) == 1 <= k /\ k <= n - 1

\* The index of value v on axis a is as the left-biased search gives it.
IndexAsClaimed(a, v, k) ==
    /\ Inside(k, Len(a)) <=> (a[1] < v /\ v <= a[Len(a)])
    /\ v <= a[1] => k = 0
    /\ v > a[Len(a)] => k = Len(a)

\* C9: on an increasing axis the search index is in 1 .. len-1 exactly
\* when the seed centre is above the first coordinate and not above the
\* last; at or below the first it is 0, above the last it is len.  The
\* tagger checks neither: with index 0 it reads the last row or column in
\* place of the missing one and updates the counter, and with index len
\* the read fails after the counters of the sites before were updated.
C9_IndexRange ==
    /\ \A i \in Sites :
          /\ IndexAsClaimed(coordx, x_sites[i], XIdx(coordx, x_sites, i))
          /\ IndexAsClaimed(coordy, y_sites[i] + SeedHeight, YIdx(coordy, y_sites, i))
    /\ pc = "tagged" =>
          \A i \in Sites :
              /\ XIdx(coordx, x_sites, i) < Len(coordx)
              /\ YIdx(coordy, y_sites, i) < Len(coordy)
              /\ (XIdx(coordx, x_sites, i) = 0 /\ YIdx(coordy, y_sites, i) = 2)
                    => dfun_sites[i] = dfun[<<2, 0>>] + dfun[<<1, 0>>]
                                       + dfun[<<2, Len(coordx) - 1>>]
                                       + dfun[<<1, Len(coordx) - 1>>]
              /\ liquid_cover_iters[i] = IF dfun_sites[i] < 0 THEN pre.iters[i] + 1 ELSE 0
    /\ pc = "crashed" =>
          /\ \/ XIdx(coordx, x_sites, pre.at) = Len(coordx)
             \/ YIdx(coordy, y_sites, pre.at) = Len(coordy)
          /\ \A j \in Sites : j < pre.at => Len(log[j]) = 1
          /\ \A j \in Sites : j >= pre.at => liquid_cover_iters[j] = pre.iters[j]

\* A site on the first x-coordinate, in a field that is positive around
\* it, was counted as covered because of the last column's value.
C9_Witness ==
    /\ pc = "tagged"
    /\ \E i \in Sites :
          /\ x_sites[i] = coordx[1]
          /\ XIdx(coordx, x_sites, i) = 0
          /\ YIdx(coordy, y_sites, i) = 2
          /\ dfun[<<1, 0>>] > 0
          /\ dfun[<<1, 1>>] > 0
          /\ dfun[<<1, Len(coordx) - 1>>] < 0
          /\ liquid_cover_iters[i] = 1

\* C10: in the driver, after a tagger call every counter is in 0 .. 4 and
\* is positive exactly when the site's sample is negative; after a
\* renucleate call every counter is in 0 .. 3; there are as many counters
\* and samples as sites.
C10_CounterBound ==
    /\ Cardinality(DOMAIN liquid_cover_iters) = Cardinality(DOMAIN x_sites)
    /\ Cardinality(DOMAIN dfun_sites) = Cardinality(DOMAIN x_sites)
    /\ Cardinality(DOMAIN y_sites) = Cardinality(DOMAIN x_sites)
    /\ pc = "tagged" =>
          \A i \in Sites : /\ liquid_cover_iters[i] \in 0 .. 4
                           /\ liquid_cover_iters[i] > 0 <=> dfun_sites[i] < 0
    /\ pc = "renucleated" => \A i \in Sites : liquid_cover_iters[i] \in 0 .. 3

\* A counter stands at 4 after a tagger call and at 3 after a renucleate call.
C10_Witness ==
    /\ pc = "renucleated"
    /\ \E i \in Sites : pre.iters[i] = 4 /\ liquid_cover_iters[i] = 0
    /\ \E j \in Sites : liquid_cover_iters[j] = 3

====
